---- MODULE Spec2Model ----
(***************************************************************************)
(* The libocxl sample harnesses samples/scm/scm.c, samples/lpc/lpc.c and   *)
(* samples/lpc/lpc_numa_enable.c as one state machine.  `prog' selects the *)
(* harness, `pc' is the position in its code.  Every libocxl call is an    *)
(* external call that either succeeds or fails, chosen nondeterministically*)
(* at the call.  `trace' records, in program order, every library call,    *)
(* every access to a cell of the mapped region and every line printed.     *)
(*                                                                         *)
(* Spec   runs each harness from main().                                   *)
(* SpecFn calls each function of each file directly, with an opened AFU,   *)
(* which also exercises the functions lpc.c's main never reaches.          *)
(***************************************************************************)
EXTENDS Integers, Sequences, FiniteSets, TLC

VARIABLES
    prog,           \* which harness: "scm", "lpc" or "numa"
    pc,             \* position in the code
    ret,            \* where the function being executed returns to
    badopt,         \* argv holds an option getopt does not recognise
    dump_mmio,      \* -m
    write,          \* -w
    read,           \* -r
    do_mmio_setup,  \* cleared by -n (lpc_numa_enable.c)
    offset,         \* -o
    size,           \* -s
    reg,            \* dump_global_mmio: loop index
    i,              \* write_xxx / read_xxx: loop index
    cfg,            \* global_setup: value read from the config register
    rv,             \* global_setup: its return value (TRUE = failure)
    regs,           \* device: the global MMIO register bank (by register index)
    mem,            \* device: LPC memory, by 8-byte cell index
    online,         \* device: ocxl_afu_online_lpc_mem has succeeded
    exitStatus,     \* "running", "0", "1" or "signal"
    trace           \* calls, cell accesses and printed lines, in order

vars == <<prog, pc, ret, badopt, dump_mmio, write, read, do_mmio_setup, offset,
          size, reg, i, cfg, rv, regs, mem, online, exitStatus, trace>>

args == <<badopt, dump_mmio, write, read, do_mmio_setup, offset, size>>
dev  == <<regs, mem, online>>

\* ---------------------------------------------------------------- bounds
MaxOffsetCells == 1     \* offsets tried: 0, 8, ..., 8 * MaxOffsetCells
MaxCount == 2           \* sizes tried: up to MaxCount cells

\* ------------------------------------------------------------- constants
GLOBAL_MMIO_REG_COUNT == 768 \div 8
LPC_AFU_GLOBAL_CFG == 0
SizeofU64 == 8
SettleSeconds == 5
EnableValue == 21       \* 0x0000000000000015

Progs == {"scm", "lpc", "numa"}

\* Number of cells of device memory the tried ranges can touch.
MemCells == MaxOffsetCells + MaxCount

Offsets == {SizeofU64 * n : n \in 0..MaxOffsetCells}
\* multiples of 8, and one size with a 4-byte tail (size / sizeof(uint64_t) truncates)
Sizes == {SizeofU64 * n : n \in 0..MaxCount} \cup {SizeofU64 * (MaxCount - 1) + 4}

\* The pattern value of the cell at device cell index c, and a corrupted one.
Good(c) == SizeofU64 * c
Bad(c) == SizeofU64 * c + 1

\* contents tried: every cell right, exactly one cell corrupted, every cell corrupted
CorruptedSets == {{}} \cup {{c} : c \in 0..(MemCells - 1)} \cup {0..(MemCells - 1)}
InitialMems == {[c \in 0..(MemCells - 1) |-> IF c \in B THEN Bad(c) ELSE Good(c)] :
                   B \in CorruptedSets}
\* two register banks; in the second the config register holds bits outside 0x15
InitialRegs == {[k \in 0..(GLOBAL_MMIO_REG_COUNT - 1) |-> 3 * k + 42 * s] : s \in {0, 1}}

\* ----------------------------------------------------------------- trace
\* op: the call or the line printed; ok: the call returned OCXL_OK;
\* a: address, offset or index; v: value; x: 1 on the calls read_xxx makes
\* (0 on those of write_xxx), and the expected value on a mismatch line
Ev(op, ok, a, v, x) == [op |-> op, ok |-> ok, a |-> a, v |-> v, x |-> x]
Call(op, ok) == Ev(op, ok, 0, 0, 0)
Line(msg) == Ev(msg, TRUE, 0, 0, 0)

Ops(S) == SelectSeq(trace, LAMBDA e : e.op \in S)
Happened(op) == \E n \in 1..Len(trace) : trace[n].op = op

\* exit(code), and main's return 0
Exit(code) ==
    /\ pc' = "exited"
    /\ exitStatus' = code

\* ------------------------------------------------- values the code computes
\* size / sizeof(uint64_t)
ValCount(sz) == sz \div SizeofU64

\* vals[i] = i * sizeof(uint64_t) + offset
PatternStoreNoOffset(off, idx) == idx * SizeofU64
PatternStore(off, idx) == idx * SizeofU64 + off

\* uint64_t expected = offset + i * sizeof(uint64_t)
Expected(off, idx) == off + idx * SizeofU64

\* uint64_t addr = reg * sizeof(uint64_t)
DumpAddrWordStride(r) == r * 4
DumpAddr(r) == r * SizeofU64

\* the for loop of read_xxx has no break: the index after checking cell idx
AfterCheckBreak(idx, count, mismatch) == IF mismatch THEN count ELSE idx + 1
AfterCheck(idx, count, mismatch) == idx + 1

\* sleep(5) stands before the loop of read_scm; in read_lpc it is commented out
HasSettleNever(p) == FALSE
HasSettle(p) == p = "scm"

\* uint64_t reg = 0x0000000000000015: the value written does not depend on cfg
SetupWriteValueMerged(c) == c + EnableValue
SetupWriteValue(c) == EnableValue

\* the cell of device memory that vals[idx] of a region mapped at off denotes
CellOf(off, idx) == off \div SizeofU64 + idx

\* --------------------------------------------------------- dump_global_mmio
DumpMap ==
    /\ pc = "dump_map"
    /\ \E ok \in BOOLEAN :
        IF ok
        THEN /\ trace' = Append(trace, Call("ocxl_mmio_map", TRUE))
             /\ reg' = 0
             /\ pc' = "dump_loop"
             /\ UNCHANGED exitStatus
        ELSE /\ trace' = trace \o <<Call("ocxl_mmio_map", FALSE),
                                    Line("Could not map global MMIO")>>
             /\ Exit("1")
             /\ UNCHANGED reg
    /\ UNCHANGED <<prog, ret, args, i, cfg, rv, dev>>

\* a failed ocxl_mmio_read64 in the dump: message, then exit(1)
DumpReadFailSkip(addr) ==
    /\ trace' = trace \o <<Ev("ocxl_mmio_read64", FALSE, addr, 0, 0),
                           Line("Failed to read MMIO register")>>
    /\ reg' = reg + 1
    /\ UNCHANGED <<pc, exitStatus>>
DumpReadFail(addr) ==
    /\ trace' = trace \o <<Ev("ocxl_mmio_read64", FALSE, addr, 0, 0),
                           Line("Failed to read MMIO register")>>
    /\ Exit("1")
    /\ UNCHANGED reg

DumpLoop ==
    /\ pc = "dump_loop"
    /\ IF reg < GLOBAL_MMIO_REG_COUNT
       THEN \E ok \in BOOLEAN :
            LET addr == DumpAddr(reg)
                val == regs[addr \div SizeofU64]
            IN  IF ok
                THEN /\ trace' = trace \o <<Ev("ocxl_mmio_read64", TRUE, addr, val, 0),
                                            Ev("printf_reg", TRUE, addr, val, 0)>>
                     /\ reg' = reg + 1
                     /\ UNCHANGED <<pc, exitStatus>>
                ELSE DumpReadFail(addr)
       ELSE /\ pc' = ret
            /\ UNCHANGED <<reg, exitStatus, trace>>
    /\ UNCHANGED <<prog, ret, args, i, cfg, rv, dev>>

\* ------------------------------------------------------------- global_setup
GsMap ==
    /\ pc = "gs_map"
    /\ \E ok \in BOOLEAN :
        /\ trace' = Append(trace, Call("ocxl_mmio_map", ok))
        /\ IF ok
           THEN pc' = "gs_read" /\ UNCHANGED rv
           ELSE pc' = ret /\ rv' = TRUE
    /\ UNCHANGED <<prog, ret, args, reg, i, cfg, dev, exitStatus>>

GsRead ==
    /\ pc = "gs_read"
    /\ \E ok \in BOOLEAN :
        IF ok
        THEN /\ cfg' = regs[LPC_AFU_GLOBAL_CFG \div SizeofU64]
             /\ trace' = trace \o <<Ev("ocxl_mmio_read64", TRUE, LPC_AFU_GLOBAL_CFG, cfg', 0),
                                    Ev("AFU config", TRUE, 0, cfg', 0)>>
             /\ pc' = "gs_write"
             /\ UNCHANGED rv
        ELSE /\ trace' = trace \o <<Ev("ocxl_mmio_read64", FALSE, LPC_AFU_GLOBAL_CFG, 0, 0),
                                    Line("Reading global config register failed")>>
             /\ pc' = ret
             /\ rv' = TRUE
             /\ UNCHANGED cfg
    /\ UNCHANGED <<prog, ret, args, reg, i, dev, exitStatus>>

GsWrite ==
    /\ pc = "gs_write"
    /\ \E ok \in BOOLEAN :
        LET val == SetupWriteValue(cfg)
        IN  IF ok
            THEN /\ trace' = Append(trace, Ev("ocxl_mmio_write64", TRUE, LPC_AFU_GLOBAL_CFG, val, 0))
                 /\ regs' = [regs EXCEPT ![LPC_AFU_GLOBAL_CFG \div SizeofU64] = val]
                 /\ rv' = FALSE
            ELSE /\ trace' = trace \o <<Ev("ocxl_mmio_write64", FALSE, LPC_AFU_GLOBAL_CFG, val, 0),
                                        Line("Writing Global Config Register failed")>>
                 /\ rv' = TRUE
                 /\ UNCHANGED regs
    /\ pc' = ret
    /\ UNCHANGED <<prog, ret, args, reg, i, cfg, mem, online, exitStatus>>

\* ------------------------------------------------- write_scm / write_lpc
\* a failed ocxl_mmio_map_advanced in the write path: message, then exit(1)
WMapFailReturn ==
    /\ trace' = trace \o <<Ev("ocxl_mmio_map_advanced", FALSE, offset, size, 0),
                           Line("Could not map LPC memory")>>
    /\ pc' = ret
    /\ UNCHANGED exitStatus
WMapFail ==
    /\ trace' = trace \o <<Ev("ocxl_mmio_map_advanced", FALSE, offset, size, 0),
                           Line("Could not map LPC memory")>>
    /\ Exit("1")

WMap ==
    /\ pc = "w_map"
    /\ \E ok \in BOOLEAN :
        IF ok
        THEN /\ trace' = Append(trace, Ev("ocxl_mmio_map_advanced", TRUE, offset, size, 0))
             /\ pc' = "w_info"
             /\ UNCHANGED exitStatus
        ELSE WMapFail
    /\ UNCHANGED <<prog, ret, args, reg, i, cfg, rv, dev>>

WInfo ==
    /\ pc = "w_info"
    /\ \E ok \in BOOLEAN :
        IF ok
        THEN /\ trace' = trace \o <<Call("ocxl_mmio_get_info", TRUE),
                                    Ev("Populating", TRUE, offset, ValCount(size), 0)>>
             /\ i' = 0
             /\ pc' = "w_loop"
             /\ UNCHANGED exitStatus
        ELSE /\ trace' = trace \o <<Call("ocxl_mmio_get_info", FALSE),
                                    Line("Could not fetch LPC info")>>
             /\ Exit("1")
             /\ UNCHANGED i
    /\ UNCHANGED <<prog, ret, args, reg, cfg, rv, dev>>

WLoop ==
    /\ pc = "w_loop"
    /\ IF i < ValCount(size)
       THEN /\ mem' = [mem EXCEPT ![CellOf(offset, i)] = PatternStore(offset, i)]
            /\ trace' = Append(trace, Ev("store", TRUE, i, PatternStore(offset, i), 0))
            /\ i' = i + 1
            /\ UNCHANGED pc
       ELSE /\ pc' = ret
            /\ UNCHANGED <<mem, trace, i>>
    /\ UNCHANGED <<prog, ret, args, reg, cfg, rv, regs, online, exitStatus>>

\* --------------------------------------------------- read_scm / read_lpc
RMap ==
    /\ pc = "r_map"
    /\ \E ok \in BOOLEAN :
        IF ok
        THEN /\ trace' = Append(trace, Ev("ocxl_mmio_map_advanced", TRUE, offset, size, 1))
             /\ pc' = "r_info"
             /\ UNCHANGED exitStatus
        ELSE /\ trace' = trace \o <<Ev("ocxl_mmio_map_advanced", FALSE, offset, size, 1),
                                    Line("Could not map LPC memory")>>
             /\ Exit("1")
    /\ UNCHANGED <<prog, ret, args, reg, i, cfg, rv, dev>>

RInfo ==
    /\ pc = "r_info"
    /\ \E ok \in BOOLEAN :
        IF ok
        THEN /\ trace' = trace \o <<Ev("ocxl_mmio_get_info", TRUE, 0, 0, 1),
                                    Ev("Validating", TRUE, offset, ValCount(size), 0)>>
             /\ i' = 0
             /\ pc' = IF HasSettle(prog) THEN "r_sleep" ELSE "r_loop"
             /\ UNCHANGED exitStatus
        ELSE /\ trace' = trace \o <<Ev("ocxl_mmio_get_info", FALSE, 0, 0, 1),
                                    Line("Could not fetch LPC info")>>
             /\ Exit("1")
             /\ UNCHANGED i
    /\ UNCHANGED <<prog, ret, args, reg, cfg, rv, dev>>

RSleep ==
    /\ pc = "r_sleep"
    /\ trace' = Append(trace, Ev("sleep", TRUE, 0, SettleSeconds, 0))
    /\ pc' = "r_loop"
    /\ UNCHANGED <<prog, ret, args, reg, i, cfg, rv, dev, exitStatus>>

RLoop ==
    /\ pc = "r_loop"
    /\ IF i < ValCount(size)
       THEN LET expected == Expected(offset, i)
                actual == mem[CellOf(offset, i)]
            IN  /\ trace' = trace \o <<Ev("load", TRUE, i, actual, 0)>> \o
                                (IF actual # expected
                                 THEN <<Ev("Validation failed", TRUE, i, actual, expected)>>
                                 ELSE <<>>)
                /\ i' = AfterCheck(i, ValCount(size), actual # expected)
                /\ UNCHANGED pc
       ELSE /\ trace' = Append(trace, Line("Validation complete"))
            /\ pc' = ret
            /\ UNCHANGED i
    /\ UNCHANGED <<prog, ret, args, reg, cfg, rv, dev, exitStatus>>

\* --------------------------------------------------------------------- main
\* the getopt loop: an unrecognised option prints the usage and exits
ParseArgs ==
    /\ pc = "main"
    /\ IF badopt
       THEN /\ trace' = Append(trace, Line("usage"))
            /\ Exit("1")
       ELSE /\ pc' = IF prog = "numa" THEN "afu_messages" ELSE "open"
            /\ UNCHANGED <<trace, exitStatus>>
    /\ UNCHANGED <<prog, ret, args, reg, i, cfg, rv, dev>>

\* lpc_numa_enable.c passes the still uninitialised afu to
\* ocxl_afu_enable_messages before ocxl_afu_open: the call may crash the
\* process or may come back.
AfuMessagesUninit ==
    /\ pc = "afu_messages"
    /\ \E crash \in BOOLEAN :
        IF crash
        THEN /\ trace' = Append(trace, Call("ocxl_afu_enable_messages", FALSE))
             /\ Exit("signal")
        ELSE /\ trace' = Append(trace, Call("ocxl_afu_enable_messages", TRUE))
             /\ pc' = "open"
             /\ UNCHANGED exitStatus
    /\ UNCHANGED <<prog, ret, args, reg, i, cfg, rv, dev>>

AfuOpen ==
    /\ pc = "open"
    /\ \E ok \in BOOLEAN :
        IF ok
        THEN /\ trace' = Append(trace, Call("ocxl_afu_open", TRUE))
             /\ pc' = CASE prog = "scm" -> "main_dump"
                        [] prog = "lpc" -> "online"
                        [] OTHER -> "main_setup"
             /\ UNCHANGED exitStatus
        ELSE /\ trace' = trace \o <<Call("ocxl_afu_open", FALSE), Line("Could not open AFU")>>
             /\ Exit("1")
    /\ UNCHANGED <<prog, ret, args, reg, i, cfg, rv, dev>>

\* where ocxl_afu_online_lpc_mem stands in main: lpc.c calls it before
\* global_setup and goes on to global_setup, lpc_numa_enable.c calls it last
AfterOnline == IF prog = "lpc" THEN "main_setup" ELSE "return"

OnlineLpcMem ==
    /\ pc = "online"
    /\ \E ok \in BOOLEAN :
        IF ok
        THEN /\ trace' = Append(trace, Call("ocxl_afu_online_lpc_mem", TRUE))
             /\ online' = TRUE
             /\ pc' = AfterOnline
             /\ UNCHANGED exitStatus
        ELSE /\ trace' = trace \o <<Call("ocxl_afu_online_lpc_mem", FALSE),
                                    Line("Could not online AFU lpc memory")>>
             /\ Exit("1")
             /\ UNCHANGED online
    /\ UNCHANGED <<prog, ret, args, reg, i, cfg, rv, regs, mem>>

\* if (global_setup(afu)) / if (do_mmio_setup && global_setup(afu))
MainSetup ==
    /\ pc = "main_setup"
    /\ IF do_mmio_setup
       THEN pc' = "gs_map" /\ ret' = "setup_ret"
       ELSE pc' = "online" /\ UNCHANGED ret
    /\ UNCHANGED <<prog, args, reg, i, cfg, rv, dev, exitStatus, trace>>

\* global_setup has returned to main: exit(1) when it returned true;
\* otherwise lpc.c returns 0 at once, lpc_numa_enable.c goes on
SetupReturn ==
    /\ pc = "setup_ret"
    /\ IF rv
       THEN Exit("1")
       ELSE IF prog = "lpc"
            THEN Exit("0")
            ELSE pc' = "online" /\ UNCHANGED exitStatus
    /\ UNCHANGED <<prog, ret, args, reg, i, cfg, rv, dev, trace>>

MainDump ==
    /\ pc = "main_dump"
    /\ IF dump_mmio
       THEN pc' = "dump_map" /\ ret' = "main_write"
       ELSE pc' = "main_write" /\ UNCHANGED ret
    /\ UNCHANGED <<prog, args, reg, i, cfg, rv, dev, exitStatus, trace>>

MainWrite ==
    /\ pc = "main_write"
    /\ IF write
       THEN pc' = "w_map" /\ ret' = "main_read"
       ELSE pc' = "main_read" /\ UNCHANGED ret
    /\ UNCHANGED <<prog, args, reg, i, cfg, rv, dev, exitStatus, trace>>

MainRead ==
    /\ pc = "main_read"
    /\ IF read
       THEN pc' = "r_map" /\ ret' = "return"
       ELSE pc' = "return" /\ UNCHANGED ret
    /\ UNCHANGED <<prog, args, reg, i, cfg, rv, dev, exitStatus, trace>>

\* the status main returns after the selected operations: always 0
MainStatusStrict == IF Happened("Validation failed") THEN "1" ELSE "0"
MainStatus == "0"

MainReturn ==
    /\ pc = "return"
    /\ Exit(MainStatus)
    /\ UNCHANGED <<prog, ret, args, reg, i, cfg, rv, dev, trace>>

\* ------------------------------------------------------------ specifications
InitLocals ==
    /\ reg = 0
    /\ i = 0
    /\ cfg = 0
    /\ rv = FALSE
    /\ exitStatus = "running"
    /\ trace = <<>>

InitDevice ==
    /\ regs \in InitialRegs
    /\ mem \in InitialMems
    /\ online = FALSE

\* scm.c and lpc.c take -m -w -r -o -s; lpc_numa_enable.c takes only -n
InitArgs ==
    /\ badopt \in BOOLEAN
    /\ IF prog = "numa"
       THEN /\ dump_mmio = FALSE /\ write = FALSE /\ read = FALSE
            /\ offset = 0 /\ size = 0
            /\ do_mmio_setup \in BOOLEAN
       ELSE /\ dump_mmio \in BOOLEAN /\ write \in BOOLEAN /\ read \in BOOLEAN
            /\ offset \in Offsets /\ size \in Sizes
            /\ do_mmio_setup = TRUE

Init ==
    /\ prog \in Progs
    /\ pc = "main"
    /\ ret = "none"
    /\ InitArgs
    /\ InitLocals
    /\ InitDevice

FnNext ==
    \/ DumpMap \/ DumpLoop
    \/ GsMap \/ GsRead \/ GsWrite
    \/ WMap \/ WInfo \/ WLoop
    \/ RMap \/ RInfo \/ RSleep \/ RLoop

MainNext ==
    \/ ParseArgs \/ AfuMessagesUninit \/ AfuOpen \/ OnlineLpcMem
    \/ MainSetup \/ SetupReturn
    \/ MainDump \/ MainWrite \/ MainRead \/ MainReturn

Next == MainNext \/ FnNext

Spec == Init /\ [][Next]_vars

\* The functions of each file, each called on its own with an opened AFU.
Entries(p) == CASE p = "scm" -> {"dump_map", "w_map", "r_map"}
                [] p = "lpc" -> {"dump_map", "gs_map", "w_map", "r_map"}
                [] OTHER -> {"gs_map"}

InitFn ==
    /\ prog \in Progs
    /\ pc \in Entries(prog)
    /\ ret = "returned"
    /\ badopt = FALSE
    /\ dump_mmio = FALSE /\ write = FALSE /\ read = FALSE
    /\ do_mmio_setup = TRUE
    /\ offset \in Offsets
    /\ size \in Sizes
    /\ InitLocals
    /\ InitDevice

SpecFn == InitFn /\ [][FnNext]_vars

\* ================================================================== claims
Stores == Ops({"store"})
Loads == Ops({"load"})
Mismatches == Ops({"Validation failed"})
DumpPairs == Ops({"printf_reg"})
RegReads == Ops({"ocxl_mmio_read64"})
RegionCalls(path) == SelectSeq(trace, LAMBDA e :
                        e.op \in {"ocxl_mmio_map_advanced", "ocxl_mmio_get_info"} /\ e.x = path)
Pos(op) == {n \in 1..Len(trace) : trace[n].op = op}

\* C1: in an scm run that selects write and verify with offset and size
\* multiples of 8 and size > 0, the verify path reports no mismatch; when its
\* first cell is read all size/8 cells have been stored, cell k holding
\* offset + 8k, which is also the value read back from cell k.
C1_WriteThenVerifyClean ==
    (prog = "scm" /\ ret # "returned" /\ write /\ read
        /\ offset % 8 = 0 /\ size % 8 = 0 /\ size > 0)
    => LET stores == Stores
           loads == Loads
       IN  /\ Mismatches = <<>>
           /\ loads # <<>> =>
                /\ Len(stores) = size \div 8
                /\ \A m \in Pos("store"), n \in Pos("load") : m < n
           /\ \A k \in 1..Len(stores) :
                stores[k].a = k - 1 /\ stores[k].v = offset + 8 * (k - 1)
           /\ \A k \in 1..Len(loads) :
                loads[k].a = k - 1 /\ loads[k].v = offset + 8 * (k - 1)

C1_Witness ==
    /\ prog = "scm" /\ ret # "returned" /\ write /\ read
    /\ offset = 8 /\ size = 16
    /\ Len(Stores) = 2 /\ Len(Loads) = 2
    /\ Happened("Validation complete")
    /\ exitStatus = "0"

C3_NoOnlineWhenConfigFails ==
    rv => ~Happened("ocxl_afu_online_lpc_mem")

\* C4: every ocxl_mmio_map_advanced call is preceded in its run by a
\* successful ocxl_afu_online_lpc_mem call.
C4_MapOnlyWhenOnline ==
    \A n \in Pos("ocxl_mmio_map_advanced") :
        \E m \in 1..(n - 1) : trace[m].op = "ocxl_afu_online_lpc_mem" /\ trace[m].ok

\* C5: every register read is at a multiple of 8 below 0x300; the k-th read
\* of a dump is at 8(k-1) and is followed at once by the pair (address, value
\* read); a dump that returns has read and reported registers 0..95 in order.
C5_DumpWalksAllRegisters ==
    LET reads == RegReads
        pairs == DumpPairs
    IN  /\ \A k \in 1..Len(reads) : reads[k].a % 8 = 0 /\ reads[k].a < 768
        /\ pairs # <<>> =>
            /\ \A k \in 1..Len(reads) : reads[k].a = 8 * (k - 1)
            /\ \A k \in 1..Len(pairs) :
                 /\ reads[k].ok
                 /\ pairs[k].a = reads[k].a
                 /\ pairs[k].v = reads[k].v
                 /\ pairs[k].v = regs[k - 1]
            /\ \A n \in Pos("printf_reg") : trace[n - 1].op = "ocxl_mmio_read64"
            /\ pc \notin {"dump_loop", "exited"} =>
                 Len(reads) = 96 /\ Len(pairs) = 96

C5_Witness ==
    /\ prog = "lpc"
    /\ pc = "returned"
    /\ Len(DumpPairs) = 96
    /\ DumpPairs[96].a = 760

\* a call whose failure makes a harness exit with code 1
FatalCalls == {"ocxl_afu_open", "ocxl_mmio_map", "ocxl_mmio_read64", "ocxl_mmio_write64",
               "ocxl_afu_online_lpc_mem", "ocxl_mmio_map_advanced", "ocxl_mmio_get_info"}
SomeCallFailed == \E n \in 1..Len(trace) : trace[n].op \in FatalCalls /\ ~trace[n].ok

\* C6 as claimed: a run whose verification completed exits with code 0
\* whether or not cells mismatched, and exit code 1 comes only from a failed
\* open, register map/read/write, online, region map or map-info query.
C6_ExitOneOnlyOnCallFailure ==
    /\ (pc = "exited" /\ Happened("Validation complete")) => exitStatus = "0"
    /\ exitStatus = "1" => SomeCallFailed

\* C6 as amended: a run whose verification completed exits with code 0
\* whether or not cells mismatched, and exit code 1 comes only from one of
\* those failed calls or from an unrecognised command-line option.
C6_ExitOneOnlyOnCallFailureOrUsage ==
    /\ (pc = "exited" /\ Happened("Validation complete")) => exitStatus = "0"
    /\ exitStatus = "1" => (SomeCallFailed \/ Happened("usage"))
    /\ (exitStatus = "1" /\ Happened("usage")) => ~SomeCallFailed

C6_Witness ==
    /\ pc = "exited"
    /\ exitStatus = "0"
    /\ Happened("Validation complete")
    /\ Len(Mismatches) = 2

\* a read64 of the register dump has failed
DumpReadFailed == Happened("Failed to read MMIO register")
FailedDumpReg == Len(DumpPairs)

\* C7 as claimed: when the read of register k fails in the dump, the pairs of
\* registers 0..k-1 have been reported, none for k, no further register is
\* read, and the process is not terminated by the failure.
C7_DumpFailureNotFatal ==
    DumpReadFailed =>
      LET reads == RegReads
          pairs == DumpPairs
          failed == Len(pairs)
      IN
        /\ Len(reads) = failed + 1
        /\ ~reads[failed + 1].ok
        /\ reads[failed + 1].a = 8 * failed
        /\ \A k \in 1..failed : reads[k].ok /\ pairs[k].a = 8 * (k - 1)
        /\ ~(pc = "exited" /\ exitStatus = "1")

\* C7 as amended: when the read of register k fails in the dump, the pairs of
\* registers 0..k-1 have been reported, none for k, no further register is
\* read, and the failure is fatal: the process has exited with code 1, and no
\* write or verify path selected in the same run is started.
C7_DumpFailureExits ==
    DumpReadFailed =>
      LET reads == RegReads
          pairs == DumpPairs
          failed == Len(pairs)
      IN
        /\ Len(reads) = failed + 1
        /\ ~reads[failed + 1].ok
        /\ reads[failed + 1].a = 8 * failed
        /\ \A k \in 1..failed : reads[k].ok /\ pairs[k].a = 8 * (k - 1)
        /\ pc = "exited" /\ exitStatus = "1"
        /\ trace[Len(trace)].op = "Failed to read MMIO register"
        /\ ~Happened("ocxl_mmio_map_advanced")

C7_Witness ==
    /\ DumpReadFailed
    /\ prog = "scm" /\ write /\ read /\ ret # "returned"
    /\ FailedDumpReg = 3
    /\ exitStatus = "1"

\* C8 as claimed: in every variant, every cell inspection of the verify path
\* comes after a 5-unit sleep that follows the successful map-info query.
SettledBefore(n) ==
    \E m \in 1..(n - 1) :
        /\ trace[m].op = "sleep" /\ trace[m].v = 5
        /\ \E l \in 1..(m - 1) :
             trace[l].op = "ocxl_mmio_get_info" /\ trace[l].ok /\ trace[l].x = 1

C9_SetupWritesEnableOnce ==
    /\ Happened("ocxl_mmio_write64") =>
      LET regOps == Ops({"ocxl_mmio_map", "ocxl_mmio_read64", "ocxl_mmio_write64"})
      IN
        /\ Len(regOps) = 3
        /\ regOps[1].op = "ocxl_mmio_map" /\ regOps[1].ok
        /\ regOps[2].op = "ocxl_mmio_read64" /\ regOps[2].ok /\ regOps[2].a = 0
        /\ regOps[2].v = cfg
        /\ regOps[3].op = "ocxl_mmio_write64" /\ regOps[3].a = 0 /\ regOps[3].v = 21
        /\ regOps[3].ok => regs[0] = 21 /\ ~rv
        /\ ~regOps[3].ok => rv
    /\ (pc \in {"setup_ret", "returned"} /\ Happened("AFU config") /\ ~rv)
          => Happened("ocxl_mmio_write64")

C9_Witness ==
    /\ Happened("ocxl_mmio_write64")
    /\ cfg = 42
    /\ regs[0] = 21
    /\ ~rv
    /\ prog = "numa"

\* C10: a failed region map or map-info query, in the write path or in the
\* verify path, ends the process at once with exit code 1: it is the last
\* call of the run and the only attempt of its path, the failing path has
\* stored or inspected no cell, and after a failure in the write path the
\* verify path makes no call at all.
RegionCallFailed(path) ==
    \E n \in 1..Len(trace) :
        /\ trace[n].op \in {"ocxl_mmio_map_advanced", "ocxl_mmio_get_info"}
        /\ trace[n].x = path
        /\ ~trace[n].ok

C10_RegionFailureIsFatal ==
    /\ \A path \in {0, 1} : RegionCallFailed(path) =>
        LET calls == RegionCalls(path)
        IN  /\ pc = "exited" /\ exitStatus = "1"
            /\ trace[Len(trace)].op \in {"Could not map LPC memory", "Could not fetch LPC info"}
            /\ ~trace[Len(trace) - 1].ok /\ trace[Len(trace) - 1].x = path
            /\ Len(calls) <= 2
            /\ \A k \in 1..(Len(calls) - 1) : calls[k].ok
    /\ RegionCallFailed(0) =>
        ~Happened("store") /\ ~Happened("load") /\ RegionCalls(1) = <<>>
    /\ RegionCallFailed(1) => ~Happened("load")

C10_Witness ==
    /\ prog = "scm" /\ ret # "returned" /\ write /\ read
    /\ Len(RegionCalls(0)) = 2
    /\ RegionCallFailed(0)
    /\ exitStatus = "1"

====
